---- MODULE Spec2Model ----
(***************************************************************************)
(* A model of oeuvre, a static site generator: the path partitioner        *)
(* (Site::expand_glob) and its calls in Site::load, the template           *)
(* composition engine (render_template and its helpers), the loaders of    *)
(* templates, snippets and pages, and the writing of the pages.            *)
(***************************************************************************)
EXTENDS Integers, Sequences, FiniteSets, TLC

(***************************************************************************)
(* Bound of the composition model: how many child nodes a marker or a      *)
(* plain element of the template, an oeuvre-fragment slot value and a      *)
(* snippet root have at most.                                              *)
(***************************************************************************)
MaxNodes == 2

(***************************************************************************)
(* Bounds of the partitioner model.                                        *)
(***************************************************************************)
\* Paths are 1..NumPaths; the order of the integers stands for Ord on PathBuf.
NumPaths == 3
\* How many times expand_glob is called on one excluded_paths list.
MaxCalls == 3
\* How many items the glob library yields for the patterns of one call.
MaxEntries == 3

VARIABLES
  excluded_paths,   \* Vec<PathBuf> shared by the calls of expand_glob
  returned_log,     \* the Vec<PathBuf> each call returned, in call order
  matched_log,      \* the set of paths each call's patterns matched
  yielded_log,      \* the items the glob library yielded to each call
  template,         \* the Template that Page::render looked up
  page_slot_values, \* Page.slot_values: HashMap<String, Element>
  site_snippets,    \* Site.snippets: HashMap<String, Snippet>
  rendered,         \* <<>> before render_template returns, <<tree>> after
  aborted,          \* TRUE once the call stack of a rendering was exhausted
  candidate_files,  \* the files of the paths given to load_many, in path order
  stage,            \* which loop of the build is running
  next_file,        \* position of the loop of load_many in the paths
  site_templates,   \* Site.templates: HashMap<String, Template>
  site_pages,       \* Site.pages: HashMap<String, Page>
  pending,          \* keys of site_pages that write_many has yet to visit
  output_files      \* the documents written below the output directory

vars == <<excluded_paths, returned_log, matched_log, yielded_log,
          template, page_slot_values, site_snippets, rendered, aborted,
          candidate_files, stage, next_file, site_templates,
          site_pages, pending, output_files>>

partition_vars == <<excluded_paths, returned_log, matched_log, yielded_log>>
render_vars == <<template, page_slot_values, site_snippets, rendered>>
load_vars == <<candidate_files, stage, next_file, site_templates>>
page_vars == <<site_pages, pending, output_files>>

\* No load_many and no write_many is running and nothing has been loaded.
LoadIdle ==
  /\ candidate_files = <<>>
  /\ stage = "idle"
  /\ next_file = 1
  /\ site_templates = <<>>
  /\ site_pages = <<>>
  /\ pending = {}
  /\ output_files = <<>>

\* No expand_glob has been called.
PartitionIdle ==
  /\ excluded_paths = <<>>
  /\ returned_log = <<>>
  /\ matched_log = <<>>
  /\ yielded_log = <<>>

(***************************************************************************)
(* Helpers on sequences.                                                   *)
(***************************************************************************)
Range(s) == {s[i] : i \in 1..Len(s)}

SeqsUpTo(S, n) == UNION {[1..k -> S] : k \in 0..n}

IsSorted(s) == \A i, j \in 1..Len(s) : i < j => s[i] <= s[j]

NoDuplicates(s) == \A i, j \in 1..Len(s) : i # j => s[i] # s[j]

(***************************************************************************)
(* The path partitioner.                                                   *)
(***************************************************************************)
Paths == 1..NumPaths

\* What the patterns of one call yield, pattern after pattern: each item is
\* Ok(path), or an Err that the code logs and drops (a match that could not
\* be read).  A pattern that does not parse yields no item.
Unreadable == 0
GlobEntries == SeqsUpTo(Paths \cup {Unreadable}, MaxEntries)

\* .filter_map(..) on the items, and .flatten()
RECURSIVE ReadablePaths(_)
ReadablePaths(entries) ==
  IF entries = <<>> THEN <<>>
  ELSE IF Head(entries) = Unreadable THEN ReadablePaths(Tail(entries))
       ELSE <<Head(entries)>> \o ReadablePaths(Tail(entries))

\* An expansion without the .unique() adaptor.
unique_keeps_all(s) == s

\* itertools .unique(): the first occurrence of every item, in order
RECURSIVE unique(_)
unique(s) ==
  IF s = <<>> THEN <<>>
  ELSE LET init == unique(SubSeq(s, 1, Len(s) - 1))
           last == s[Len(s)]
       IN  IF last \in Range(init) THEN init ELSE Append(init, last)

\* .sorted() and Vec::sort(): ascending, duplicates kept
RECURSIVE Insert(_, _)
Insert(s, x) ==
  IF s = <<>> THEN <<x>>
  ELSE IF x < Head(s) THEN <<x>> \o s
       ELSE <<Head(s)>> \o Insert(Tail(s), x)

RECURSIVE sorted(_)
sorted(s) == IF s = <<>> THEN <<>> ELSE Insert(sorted(Tail(s)), Head(s))

\* The expansion without the .sorted() adaptor.
found_paths_unsorted(entries) == unique(ReadablePaths(entries))

found_paths(entries) == sorted(unique(ReadablePaths(entries)))

\* A closure that keeps a path equal to the current excluded path.
RECURSIVE filter_loop_keeps_equal(_, _, _)
filter_loop_keeps_equal(path, excluded, j) ==
  IF j > Len(excluded) \/ path <= excluded[j] THEN [keep |-> TRUE, next |-> j]
  ELSE filter_loop_keeps_equal(path, excluded, j + 1)

\* A closure that drops a path sorting after the current excluded path
\* instead of advancing the iterator until it catches up.
filter_loop_drops_later(path, excluded, j) ==
  IF j > Len(excluded) \/ path < excluded[j] THEN [keep |-> TRUE, next |-> j]
  ELSE [keep |-> FALSE, next |-> j + 1]

\* The closure given to .filter(): j is the position of excluded_path in
\* excluded (past the end when the iterator gave None).  Gives whether the
\* path is kept and where the iterator stands afterwards.
RECURSIVE filter_loop(_, _, _)
filter_loop(path, excluded, j) ==
  IF j > Len(excluded) \/ path < excluded[j] THEN [keep |-> TRUE, next |-> j]
  ELSE IF path = excluded[j] THEN [keep |-> FALSE, next |-> j + 1]
       ELSE filter_loop(path, excluded, j + 1)

RECURSIVE remove_excluded(_, _, _)
remove_excluded(found, excluded, j) ==
  IF found = <<>> THEN <<>>
  ELSE LET step == filter_loop(Head(found), excluded, j)
           rest == remove_excluded(Tail(found), excluded, step.next)
       IN  IF step.keep THEN <<Head(found)>> \o rest ELSE rest

\* The append without the sort that follows it.
add_excluded_unsorted(excluded, found) == excluded \o found

\* excluded_paths.append(&mut found_paths.clone()); excluded_paths.sort();
add_excluded(excluded, found) == sorted(excluded \o found)

\* An expand_glob that returns what it found without adding it to
\* excluded_paths.
expand_glob_claims_nothing(entries) ==
  LET found == remove_excluded(found_paths(entries), excluded_paths, 1)
  IN  /\ excluded_paths' = excluded_paths
      /\ returned_log' = Append(returned_log, found)
      /\ matched_log' = Append(matched_log, Range(ReadablePaths(entries)))
      /\ UNCHANGED <<render_vars, aborted, load_vars, page_vars>>

expand_glob(entries) ==
  LET found == remove_excluded(found_paths(entries), excluded_paths, 1)
  IN  /\ excluded_paths' = add_excluded(excluded_paths, found)
      /\ returned_log' = Append(returned_log, found)
      /\ matched_log' = Append(matched_log, Range(ReadablePaths(entries)))
      /\ UNCHANGED <<render_vars, aborted, load_vars, page_vars>>

ExpandGlob ==
  /\ Len(returned_log) < MaxCalls
  /\ \E entries \in GlobEntries : expand_glob(entries)
  /\ UNCHANGED yielded_log

\* No template has been looked up while the paths are being partitioned.
NoTemplate == [name |-> <<>>, element |-> <<>>]

\* No page is being rendered.
RenderIdle ==
  /\ template = NoTemplate
  /\ page_slot_values = <<>>
  /\ rendered = <<>>
  /\ aborted = FALSE

InitPartition ==
  /\ PartitionIdle
  /\ RenderIdle
  /\ site_snippets = <<>>
  /\ LoadIdle

NextPartition == ExpandGlob

SpecPartition == InitPartition /\ [][NextPartition]_vars

(***************************************************************************)
(* Claims about the partitioner.                                           *)
(***************************************************************************)
Calls == 1..Len(returned_log)

LastReturned == returned_log[Len(returned_log)]
LastMatched == matched_log[Len(matched_log)]

\* C1: the path sets returned by two different calls of expand_glob on one
\* excluded_paths list are disjoint, also when the later call's patterns
\* match a path an earlier call returned.
C1_Disjoint ==
  \A i, j \in Calls :
    i < j => Range(returned_log[i]) \cap Range(returned_log[j]) = {}

\* A later call's patterns match a path that an earlier call returned.
C1_Witness ==
  \E i, j \in Calls :
    /\ i < j
    /\ Range(returned_log[i]) \cap matched_log[j] # {}
    /\ returned_log[j] # <<>>

\* C2: the union of everything the calls returned is the set of all paths
\* matched by any pattern of any call.
C2_UnionIsAllMatched ==
  UNION {Range(returned_log[i]) : i \in Calls} =
  UNION {matched_log[i] : i \in Calls}

\* A call matched both an already claimed path and, sorting after it, a new one.
C2_Witness ==
  \E j \in Calls : \E p, q \in matched_log[j] :
    /\ j > 1
    /\ p < q
    /\ \E i \in 1..(j - 1) : p \in Range(returned_log[i])
    /\ \A i \in 1..(j - 1) : q \notin matched_log[i]

\* C3: one call, entered with a sorted excluded_paths, returns exactly the
\* matched paths that are not in excluded_paths, without duplicates and
\* sorted ascending.
C3_ReturnsDifference ==
  [][(returned_log' # returned_log /\ IsSorted(excluded_paths)) =>
       /\ Range(LastReturned') = LastMatched' \ Range(excluded_paths)
       /\ NoDuplicates(LastReturned')
       /\ IsSorted(LastReturned')]_vars

\* A call entered with claimed paths returned two paths and dropped a third.
C3_Witness ==
  /\ Len(returned_log) >= 2
  /\ Len(LastReturned) >= 2
  /\ LastMatched \ Range(LastReturned) # {}

\* C4: a call leaves in excluded_paths every path that was there, adds
\* exactly the paths it returned, and leaves the list sorted.
C4_ClaimedGrows ==
  [][returned_log' # returned_log =>
       /\ Range(excluded_paths') = Range(excluded_paths) \cup Range(LastReturned')
       /\ Len(excluded_paths') = Len(excluded_paths) + Len(LastReturned')
       /\ IsSorted(excluded_paths')]_vars

\* The second call returned a path sorting before one the first call returned.
C4_Witness ==
  /\ Len(returned_log) >= 2
  /\ returned_log[1] # <<>>
  /\ returned_log[2] # <<>>
  /\ returned_log[2][1] < returned_log[1][1]
  /\ Len(excluded_paths) = Len(returned_log[1]) + Len(returned_log[2])

(***************************************************************************)
(* The tree model.  A string the code inspects is a sequence of            *)
(* characters; an Element has a name, a namespace, attributes (a function  *)
(* from attribute names to values) and child nodes; a node that is not an  *)
(* Element is text.                                                        *)
(***************************************************************************)
OeuvrePrefix == <<"o", "e", "u", "v", "r", "e", "-">>

starts_with(s, prefix) ==
  /\ Len(s) >= Len(prefix)
  /\ SubSeq(s, 1, Len(prefix)) = prefix

Element(name, ns, attrs, nodes) ==
  [name |-> name, ns |-> ns, attrs |-> attrs, nodes |-> nodes]

Text(s) == [text |-> s]

\* node.as_element() is Some
is_element(node) == "name" \in DOMAIN node

\* Element::bare(name, ns)
bare(name, ns) == Element(name, ns, <<>>, <<>>)

\* Element::append_node and Element::append_child
append_node(target, node) == [target EXCEPT !.nodes = Append(@, node)]

append_child(target, child) == [target EXCEPT !.nodes = Append(@, child)]

(***************************************************************************)
(* The composition engine (site/render.rs).  A function that takes         *)
(* `target: &mut Element` gives the target it leaves.                      *)
(***************************************************************************)
\* An initialize_element that copies every attribute.
initialize_element_copies_all(template_element) ==
  [bare(template_element.name, template_element.ns)
     EXCEPT !.attrs = template_element.attrs]

initialize_element(template_element) ==
  [bare(template_element.name, template_element.ns)
     EXCEPT !.attrs =
       [a \in {a \in DOMAIN template_element.attrs :
                 ~starts_with(a, OeuvrePrefix)} |-> template_element.attrs[a]]]

NameInclude == OeuvrePrefix \o <<"i", "n", "c", "l", "u", "d", "e">>
NameSlot == OeuvrePrefix \o <<"s", "l", "o", "t">>
NameFragment == OeuvrePrefix \o <<"f", "r", "a", "g", "m", "e", "n", "t">>
AttrSnippet == OeuvrePrefix \o <<"s", "n", "i", "p", "p", "e", "t">>
AttrName == OeuvrePrefix \o <<"n", "a", "m", "e">>

RECURSIVE render_template(_, _, _)
RECURSIVE render_nodes(_, _, _, _)
RECURSIVE render_include(_, _, _, _)
RECURSIVE render_slot(_, _, _, _)
RECURSIVE append_element(_, _, _, _)
RECURSIVE unwrap_fragment(_, _, _, _)
RECURSIVE unwrap_nodes(_, _, _, _)

\* A loop body that renders an unknown oeuvre-* element like any other element.
render_node_keeps_unknown(node, result, slot_values, snippets) ==
  IF ~is_element(node) THEN append_node(result, node)
  ELSE IF node.name = NameInclude
         THEN render_include(node, result, slot_values, snippets)
  ELSE IF node.name = NameSlot
         THEN render_slot(node, result, slot_values, snippets)
  ELSE append_element(node, result, slot_values, snippets)

\* The body of the loop of render_template, for one node.
render_node(node, result, slot_values, snippets) ==
  IF ~is_element(node) THEN append_node(result, node)
  ELSE IF node.name = NameInclude
         THEN render_include(node, result, slot_values, snippets)
  ELSE IF node.name = NameSlot
         THEN render_slot(node, result, slot_values, snippets)
  ELSE IF starts_with(node.name, OeuvrePrefix) THEN result
  ELSE append_element(node, result, slot_values, snippets)

\* for node in template_element.nodes() { .. }
render_nodes(nodes, result, slot_values, snippets) ==
  IF nodes = <<>> THEN result
  ELSE render_nodes(Tail(nodes),
                    render_node(Head(nodes), result, slot_values, snippets),
                    slot_values, snippets)

render_template(template_element, slot_values, snippets) ==
  render_nodes(template_element.nodes, initialize_element(template_element),
               slot_values, snippets)

\* A render_include that renders the marker's own children even when the
\* snippet exists.
render_include_own_children(element, target, slot_values, snippets) ==
  IF AttrSnippet \in DOMAIN element.attrs
    THEN unwrap_fragment(element, target, slot_values, snippets)
    ELSE target

\* A render_include that renders nothing when the snippet does not exist.
render_include_no_fallback(element, target, slot_values, snippets) ==
  IF AttrSnippet \in DOMAIN element.attrs
       /\ element.attrs[AttrSnippet] \in DOMAIN snippets
    THEN unwrap_fragment(snippets[element.attrs[AttrSnippet]].element,
                         target, slot_values, snippets)
    ELSE target

render_include(element, target, slot_values, snippets) ==
  IF AttrSnippet \in DOMAIN element.attrs
    THEN IF element.attrs[AttrSnippet] \in DOMAIN snippets
           THEN unwrap_fragment(snippets[element.attrs[AttrSnippet]].element,
                                target, slot_values, snippets)
           ELSE unwrap_fragment(element, target, slot_values, snippets)
    ELSE target

\* A render_slot that renders the marker itself when no slot value exists.
render_slot_wraps_fallback(element, target, slot_values, snippets) ==
  IF AttrName \in DOMAIN element.attrs
    THEN IF element.attrs[AttrName] \in DOMAIN slot_values
           THEN LET slot_value == slot_values[element.attrs[AttrName]]
                IN  IF slot_value.name = NameFragment
                      THEN unwrap_fragment(slot_value, target, slot_values, snippets)
                      ELSE append_element(slot_value, target, slot_values, snippets)
           ELSE append_child(target, render_nodes(element.nodes,
                                                  initialize_element(element),
                                                  slot_values, snippets))
    ELSE target

\* A render_slot that unwraps every slot value, whatever its tag.
render_slot_unwraps_all(element, target, slot_values, snippets) ==
  IF AttrName \in DOMAIN element.attrs
    THEN IF element.attrs[AttrName] \in DOMAIN slot_values
           THEN unwrap_fragment(slot_values[element.attrs[AttrName]],
                                target, slot_values, snippets)
           ELSE unwrap_fragment(element, target, slot_values, snippets)
    ELSE target

\* A render_slot that appends every slot value as an element, whatever its tag.
render_slot_appends_all(element, target, slot_values, snippets) ==
  IF AttrName \in DOMAIN element.attrs
    THEN IF element.attrs[AttrName] \in DOMAIN slot_values
           THEN append_element(slot_values[element.attrs[AttrName]],
                               target, slot_values, snippets)
           ELSE unwrap_fragment(element, target, slot_values, snippets)
    ELSE target

render_slot(element, target, slot_values, snippets) ==
  IF AttrName \in DOMAIN element.attrs
    THEN IF element.attrs[AttrName] \in DOMAIN slot_values
           THEN LET slot_value == slot_values[element.attrs[AttrName]]
                IN  IF slot_value.name = NameFragment
                      THEN unwrap_fragment(slot_value, target, slot_values, snippets)
                      ELSE append_element(slot_value, target, slot_values, snippets)
           ELSE unwrap_fragment(element, target, slot_values, snippets)
    ELSE target

append_element(element, target, slot_values, snippets) ==
  append_child(target, render_template(element, slot_values, snippets))

\* for fragment_child in fragment.nodes() { .. }
unwrap_nodes(nodes, target, slot_values, snippets) ==
  IF nodes = <<>> THEN target
  ELSE unwrap_nodes(
         Tail(nodes),
         IF ~is_element(Head(nodes)) THEN append_node(target, Head(nodes))
         ELSE append_child(target,
                           render_template(Head(nodes), slot_values, snippets)),
         slot_values, snippets)

unwrap_fragment(fragment, target, slot_values, snippets) ==
  unwrap_nodes(fragment.nodes, target, slot_values, snippets)

(***************************************************************************)
(* The documents the composition model is run on.                          *)
(***************************************************************************)
NsHtml == <<"h", "t", "m", "l">>
NameDiv == <<"d", "i", "v">>
NameP == <<"p">>
NameUnknown == OeuvrePrefix \o <<"i", "f">>
AttrClass == <<"c", "l", "a", "s", "s">>
AttrSlot == OeuvrePrefix \o <<"s", "l", "o", "t">>
\* An attribute name that is not reserved: it lacks the dash of the prefix.
AttrOeuvre == <<"o", "e", "u", "v", "r", "e">>
SlotX == <<"x">>
SnippetS == <<"s">>
TemplateT == <<"t">>

PlainAttrs == (AttrClass :> <<"c">>) @@ (AttrOeuvre :> <<"v">>)

\* The nodes without children that the documents are built from.
TextLeaf == Text("t")
PlainLeaf == Element(NameP, NsHtml, PlainAttrs @@ (AttrName :> <<"n">>), <<>>)
SlotLeaf == Element(NameSlot, NsHtml, AttrName :> SlotX, <<>>)
IncludeLeaf == Element(NameInclude, NsHtml, AttrSnippet :> SnippetS, <<>>)
Leaves == {TextLeaf, PlainLeaf, SlotLeaf, IncludeLeaf}
FragmentLeaves == {PlainLeaf, SlotLeaf}
SnippetLeaves == {TextLeaf, PlainLeaf, SlotLeaf}

\* The element of the template that the claims look at: a plain element, a
\* marker with or without its attribute, a fragment or an unknown marker.
Heads ==
  { [name |-> NameP, attrs |-> PlainAttrs @@ (AttrName :> <<"n">>)],
    [name |-> NameSlot, attrs |-> AttrName :> SlotX],
    [name |-> NameSlot, attrs |-> PlainAttrs],
    [name |-> NameInclude, attrs |-> AttrSnippet :> SnippetS],
    [name |-> NameInclude, attrs |-> PlainAttrs],
    [name |-> NameFragment, attrs |-> <<>>],
    [name |-> NameUnknown, attrs |-> <<>>] }

TemplateChildren ==
  { Element(h.name, NsHtml, h.attrs, nodes) :
      h \in Heads, nodes \in SeqsUpTo(Leaves, MaxNodes) }

Templates ==
  { [name |-> TemplateT,
     element |-> Element(NameDiv, NsHtml, PlainAttrs @@ (AttrName :> TemplateT),
                         siblings[1] \o <<child>> \o siblings[2])] :
      child \in TemplateChildren,
      siblings \in {<< <<>>, <<>> >>, << <<TextLeaf>>, <<PlainLeaf>> >>} }

\* A page child that declares slot x: an oeuvre-fragment, or a plain element
\* (which holds no slot marker, so that rendering it comes to an end).
SlotValues ==
  { Element(NameFragment, NsHtml, AttrSlot :> SlotX, nodes) :
      nodes \in SeqsUpTo(FragmentLeaves, MaxNodes) }
  \cup
  { Element(NameP, NsHtml, PlainAttrs @@ (AttrSlot :> SlotX), nodes) :
      nodes \in SeqsUpTo({TextLeaf, PlainLeaf, IncludeLeaf}, 1) }

SlotMaps == {<<>>} \cup {SlotX :> v : v \in SlotValues}

SnippetMaps ==
  {<<>>} \cup
  { SnippetS :>
      [name |-> SnippetS,
       element |-> Element(NameDiv, NsHtml,
                           PlainAttrs @@ (AttrName :> SnippetS), nodes)] :
      nodes \in SeqsUpTo(SnippetLeaves, MaxNodes) }

InitRender ==
  /\ PartitionIdle
  /\ LoadIdle
  /\ aborted = FALSE
  /\ template \in Templates
  /\ page_slot_values \in SlotMaps
  /\ site_snippets \in SnippetMaps
  /\ rendered = <<>>

\* A Page::render that moves the slot values out of the page.
PageRender_takes_slots ==
  /\ rendered = <<>>
  /\ rendered' = <<render_template(template.element, page_slot_values,
                                   site_snippets)>>
  /\ page_slot_values' = <<>>
  /\ UNCHANGED <<template, site_snippets>>
  /\ UNCHANGED <<partition_vars, aborted, load_vars, page_vars>>

\* Page::render, for a page whose template exists.
PageRender ==
  /\ rendered = <<>>
  /\ rendered' = <<render_template(template.element, page_slot_values,
                                   site_snippets)>>
  /\ UNCHANGED <<template, page_slot_values, site_snippets>>
  /\ UNCHANGED <<partition_vars, aborted, load_vars, page_vars>>

NextRender == PageRender

SpecRender == InitRender /\ [][NextRender]_vars

(***************************************************************************)
(* Claims about the composition engine.                                    *)
(***************************************************************************)
Done == rendered # <<>>
Root == template.element
Out == rendered[1]

RECURSIVE HasReservedAttr(_)
HasReservedAttr(e) ==
  \/ \E a \in DOMAIN e.attrs : starts_with(a, OeuvrePrefix)
  \/ \E i \in 1..Len(e.nodes) :
       is_element(e.nodes[i]) /\ HasReservedAttr(e.nodes[i])

\* C5: no element of the tree render_template returns has an attribute
\* whose name begins with oeuvre-.
C5_NoReservedAttr == Done => ~HasReservedAttr(Out)

\* A slot value with a reserved attribute was rendered into the output with
\* its other attributes.
C5_Witness ==
  /\ Done
  /\ SlotX \in DOMAIN page_slot_values
  /\ page_slot_values[SlotX].name = NameP
  /\ AttrSlot \in DOMAIN page_slot_values[SlotX].attrs
  /\ \E i \in 1..Len(Root.nodes) :
       is_element(Root.nodes[i]) /\ Root.nodes[i].name = NameSlot
         /\ AttrName \in DOMAIN Root.nodes[i].attrs
  /\ \E j \in 1..Len(Out.nodes) :
       is_element(Out.nodes[j]) /\ Out.nodes[j].name = NameP
         /\ Out.nodes[j].attrs = PlainAttrs
         /\ Out.nodes[j].nodes # <<>>

\* What the children of `src` at the positions of `nodes` put into the
\* output of `src`.
RenderedNodes(src, nodes) ==
  render_nodes(nodes, bare(src.name, src.ns), page_slot_values, site_snippets).nodes

\* Every node rendered on its own: text as it is, an element by render_template.
EachRendered(nodes) ==
  [k \in 1..Len(nodes) |->
     IF is_element(nodes[k])
       THEN render_template(nodes[k], page_slot_values, site_snippets)
       ELSE nodes[k]]

\* The child i of `src` put exactly `contribution` into `out`, the output of
\* `src`, between what its siblings put there.
Contributes(src, out, i, contribution) ==
  out.nodes = RenderedNodes(src, SubSeq(src.nodes, 1, i - 1))
                \o contribution
                \o RenderedNodes(src, SubSeq(src.nodes, i + 1, Len(src.nodes)))

UnresolvedSlot(m) ==
  /\ is_element(m) /\ m.name = NameSlot
  /\ AttrName \in DOMAIN m.attrs
  /\ m.attrs[AttrName] \notin DOMAIN page_slot_values

ResolvedSlot(m) ==
  /\ is_element(m) /\ m.name = NameSlot
  /\ AttrName \in DOMAIN m.attrs
  /\ m.attrs[AttrName] \in DOMAIN page_slot_values

ResolvedInclude(m) ==
  /\ is_element(m) /\ m.name = NameInclude
  /\ AttrSnippet \in DOMAIN m.attrs
  /\ m.attrs[AttrSnippet] \in DOMAIN site_snippets

UnresolvedInclude(m) ==
  /\ is_element(m) /\ m.name = NameInclude
  /\ AttrSnippet \in DOMAIN m.attrs
  /\ m.attrs[AttrSnippet] \notin DOMAIN site_snippets

\* The children of the template root that are plain elements after text only:
\* child i is rendered into node i of the output.
PlainChildren ==
  {i \in 1..Len(Root.nodes) :
     /\ is_element(Root.nodes[i])
     /\ ~starts_with(Root.nodes[i].name, OeuvrePrefix)
     /\ \A k \in 1..(i - 1) : ~is_element(Root.nodes[k])}

KeptAttrs(e) ==
  [a \in {a \in DOMAIN e.attrs :
            Len(a) < 7 \/ SubSeq(a, 1, 7) # OeuvrePrefix} |-> e.attrs[a]]

\* What a slot value that is not an oeuvre-fragment is rendered as.
RenderedValue(v) ==
  Element(v.name, v.ns, KeptAttrs(v), RenderedNodes(v, v.nodes))

Rejected(m) ==
  /\ is_element(m)
  /\ \/ m.name = NameInclude /\ AttrSnippet \notin DOMAIN m.attrs
     \/ m.name = NameSlot /\ AttrName \notin DOMAIN m.attrs
     \/ /\ starts_with(m.name, OeuvrePrefix)
        /\ m.name \notin {NameInclude, NameSlot}

\* The element e without its i-th child.
WithoutChild(e, i) ==
  [e EXCEPT !.nodes = SubSeq(e.nodes, 1, i - 1)
                        \o SubSeq(e.nodes, i + 1, Len(e.nodes))]

MaxFiles == 3

NameA == <<"a">>
NameB == <<"b">>

\* A file that fs::read_to_string cannot read, a file whose text is not XML,
\* and a file whose text parses to a root element; the root holds the path
\* of its file as text, so that the files are told apart.
UnreadableFile == [readable |-> FALSE, parsed |-> <<>>]
UnparsableFile == [readable |-> TRUE, parsed |-> <<>>]
XmlFile(path, attrs) ==
  [readable |-> TRUE,
   parsed |-> <<Element(NameDiv, NsHtml, attrs, <<Text(ToString(path))>>)>>]

\* What the file of a path may be: the root of an XML file has no
\* oeuvre-name, or declares the name a or b.
FilesAt(path) ==
  {UnreadableFile, UnparsableFile} \cup
  { XmlFile(path, attrs) :
      attrs \in {PlainAttrs, AttrName :> NameA,
                 PlainAttrs @@ (AttrName :> NameB)} }

CandidateFiles ==
  UNION { { files \in [1..k -> UNION {FilesAt(path) : path \in 1..k}] :
              \A path \in 1..k : files[path] \in FilesAt(path) } :
          k \in 0..MaxFiles }

\* Result<T>: <<>> is Err, <<v>> is Ok(v).
load_xml(file) == IF file.readable THEN file.parsed ELSE <<>>

\* HashMap::insert: a value already held under the key is replaced.
hash_insert(map, key, value) ==
  [k \in DOMAIN map \cup {key} |-> IF k = key THEN value ELSE map[k]]

\* A Template::new that does not look the name up in the collection.
TemplateNew_allows_duplicates(element, templates) ==
  IF AttrName \notin DOMAIN element.attrs THEN <<>>
  ELSE <<[name |-> element.attrs[AttrName], element |-> element]>>

TemplateNew(element, templates) ==
  IF AttrName \notin DOMAIN element.attrs THEN <<>>
  ELSE IF element.attrs[AttrName] \in DOMAIN templates THEN <<>>
  ELSE <<[name |-> element.attrs[AttrName], element |-> element]>>

TemplateLoad(file, templates) ==
  LET element == load_xml(file)
  IN  IF element = <<>> THEN <<>> ELSE TemplateNew(element[1], templates)

\* One iteration of the loop of Template::load_many.
TemplateLoadMany ==
  /\ stage = "templates"
  /\ next_file <= Len(candidate_files)
  /\ LET loaded == TemplateLoad(candidate_files[next_file], site_templates)
     IN  site_templates' =
           IF loaded = <<>> THEN site_templates
           ELSE hash_insert(site_templates, loaded[1].name, loaded[1])
  /\ next_file' = next_file + 1
  /\ UNCHANGED <<candidate_files, stage, page_vars>>
  /\ UNCHANGED <<partition_vars, render_vars, aborted>>

SnippetNew(element, snippets) ==
  IF AttrName \notin DOMAIN element.attrs THEN <<>>
  ELSE IF element.attrs[AttrName] \in DOMAIN snippets THEN <<>>
  ELSE <<[name |-> element.attrs[AttrName], element |-> element]>>

SnippetLoad(file, snippets) ==
  LET element == load_xml(file)
  IN  IF element = <<>> THEN <<>> ELSE SnippetNew(element[1], snippets)

\* A loop of Snippet::load_many that a failed file brings to an end.
SnippetLoadMany_stops ==
  /\ stage = "snippets"
  /\ next_file <= Len(candidate_files)
  /\ LET loaded == SnippetLoad(candidate_files[next_file], site_snippets)
     IN  /\ site_snippets' =
              IF loaded = <<>> THEN site_snippets
              ELSE hash_insert(site_snippets, loaded[1].name, loaded[1])
         /\ next_file' = IF loaded = <<>> THEN Len(candidate_files) + 1
                         ELSE next_file + 1
  /\ UNCHANGED <<candidate_files, stage, site_templates, page_vars>>
  /\ UNCHANGED <<partition_vars, template, page_slot_values, rendered, aborted>>

\* One iteration of the loop of Snippet::load_many.
SnippetLoadMany ==
  /\ stage = "snippets"
  /\ next_file <= Len(candidate_files)
  /\ LET loaded == SnippetLoad(candidate_files[next_file], site_snippets)
     IN  site_snippets' =
           IF loaded = <<>> THEN site_snippets
           ELSE hash_insert(site_snippets, loaded[1].name, loaded[1])
  /\ next_file' = next_file + 1
  /\ UNCHANGED <<candidate_files, stage, site_templates, page_vars>>
  /\ UNCHANGED <<partition_vars, template, page_slot_values, rendered, aborted>>

InitLoad ==
  /\ PartitionIdle
  /\ RenderIdle
  /\ candidate_files \in CandidateFiles
  /\ stage \in {"templates", "snippets"}
  /\ next_file = 1
  /\ site_templates = <<>>
  /\ site_snippets = <<>>
  /\ site_pages = <<>>
  /\ pending = {}
  /\ output_files = <<>>

NextLoad == TemplateLoadMany \/ SnippetLoadMany

SpecLoad == InitLoad /\ [][NextLoad]_vars

(***************************************************************************)
(* Claims about the loaders.                                               *)
(***************************************************************************)
\* The collection that the running load_many is building.
Collection == IF stage = "templates" THEN site_templates ELSE site_snippets

\* The candidates that the loop has been through.
Processed == 1..(next_file - 1)

\* The file of the path parses and its root declares the name.
Declares(path, name) ==
  LET file == candidate_files[path]
  IN  /\ file.readable
      /\ file.parsed # <<>>
      /\ AttrName \in DOMAIN file.parsed[1].attrs
      /\ file.parsed[1].attrs[AttrName] = name

FirstDeclaring(name) ==
  CHOOSE path \in Processed :
    /\ Declares(path, name)
    /\ \A earlier \in 1..(path - 1) : ~Declares(earlier, name)

\* C12: at every point of Template::load_many and Snippet::load_many the
\* collection holds exactly the names declared by the files gone through,
\* each with the element of the first file, in path order, that declared it.
C12_FirstLoadedWins ==
  /\ DOMAIN Collection =
       {name \in {NameA, NameB} : \E path \in Processed : Declares(path, name)}
  /\ \A name \in DOMAIN Collection :
       /\ Collection[name].name = name
       /\ Collection[name].element =
            candidate_files[FirstDeclaring(name)].parsed[1]

\* Two files declared the name a; the collection holds the earlier one.
C12_Witness ==
  /\ next_file > MaxFiles
  /\ \E first, second \in Processed :
       /\ first < second
       /\ Declares(first, NameA) /\ Declares(second, NameA)
       /\ Collection[NameA].element = candidate_files[first].parsed[1]
       /\ Collection[NameA].element # candidate_files[second].parsed[1]

\* The candidate under the loop fails: it cannot be read or parsed, declares
\* no name, or declares a name that the collection holds.
FailsNow ==
  LET file == candidate_files[next_file]
  IN  \/ ~file.readable
      \/ file.parsed = <<>>
      \/ AttrName \notin DOMAIN file.parsed[1].attrs
      \/ file.parsed[1].attrs[AttrName] \in DOMAIN Collection

\* C13: an iteration on a file that fails leaves the collection as it was,
\* an iteration on a valid file whose name is free adds that file under its
\* name and keeps the rest, and either way the loop moves to the next
\* candidate.
C13_FailureSkipsOneFile ==
  [][ /\ next_file' = next_file + 1
      /\ FailsNow => Collection' = Collection
      /\ ~FailsNow =>
           LET element == candidate_files[next_file].parsed[1]
           IN  /\ DOMAIN Collection' =
                    DOMAIN Collection \cup {element.attrs[AttrName]}
               /\ Collection'[element.attrs[AttrName]].element = element
               /\ \A name \in DOMAIN Collection :
                    Collection'[name] = Collection[name]
    ]_vars

\* After a file that could not be read or parsed and a file without a name,
\* the third file, which declares a, was loaded.
C13_Witness ==
  /\ next_file = 4
  /\ ~candidate_files[1].readable \/ candidate_files[1].parsed = <<>>
  /\ candidate_files[2].parsed # <<>>
  /\ AttrName \notin DOMAIN candidate_files[2].parsed[1].attrs
  /\ Declares(3, NameA)
  /\ DOMAIN Collection = {NameA}
  /\ Collection[NameA].element = candidate_files[3].parsed[1]

(***************************************************************************)
(* Pages: Page::new, Page::load_many, Site::render and Page::write_many.   *)
(* A path is the sequence of its components; an attribute value and a     *)
(* component are sequences of characters.                                  *)
(***************************************************************************)
\* How many characters the oeuvre-slot value of a page child has at most.
MaxSlotAttrLen == 3

AttrTemplate == OeuvrePrefix \o <<"t", "e", "m", "p", "l", "a", "t", "e">>
AttrPath == OeuvrePrefix \o <<"p", "a", "t", "h">>

\* str::split: the pieces between the separators; an empty piece where two
\* separators meet and at an end that is a separator.
RECURSIVE split(_, _)
split(s, separator) ==
  IF \A i \in 1..Len(s) : s[i] # separator THEN <<s>>
  ELSE LET i == CHOOSE i \in 1..Len(s) :
                  /\ s[i] = separator
                  /\ \A j \in 1..(i - 1) : s[j] # separator
       IN  <<SubSeq(s, 1, i - 1)>> \o split(SubSeq(s, i + 1, Len(s)), separator)

\* str::trim, on strings whose only whitespace is the space.
RECURSIVE trim_start(_)
trim_start(s) ==
  IF s # <<>> /\ Head(s) = " " THEN trim_start(Tail(s)) ELSE s

RECURSIVE trim_end(_)
trim_end(s) ==
  IF s # <<>> /\ s[Len(s)] = " " THEN trim_end(SubSeq(s, 1, Len(s) - 1))
  ELSE s

trim(s) == trim_end(trim_start(s))

\* Element::children: the child elements, without the text nodes.
children(element) == SelectSeq(element.nodes, is_element)

\* for slot_name in slot_names.split(',') { slot_values.insert(..) }
RECURSIVE insert_slot_names(_, _, _)
insert_slot_names(slot_values, slot_names, child) ==
  IF slot_names = <<>> THEN slot_values
  ELSE insert_slot_names(hash_insert(slot_values, trim(Head(slot_names)), child),
                         Tail(slot_names), child)

\* A slot loop that keeps the child that first declared a name.
RECURSIVE insert_slots_first_wins(_, _)
insert_slots_first_wins(element_children, slot_values) ==
  IF element_children = <<>> THEN slot_values
  ELSE LET child == Head(element_children)
           added == IF AttrSlot \in DOMAIN child.attrs
                      THEN insert_slot_names(<<>>,
                             split(child.attrs[AttrSlot], ","), child)
                      ELSE <<>>
       IN  insert_slots_first_wins(
             Tail(element_children),
             [k \in DOMAIN slot_values \cup DOMAIN added |->
                IF k \in DOMAIN slot_values THEN slot_values[k] ELSE added[k]])

\* A slot loop that registers a child under its whole oeuvre-slot value.
RECURSIVE insert_slots_unsplit(_, _)
insert_slots_unsplit(element_children, slot_values) ==
  IF element_children = <<>> THEN slot_values
  ELSE LET child == Head(element_children)
       IN  insert_slots_unsplit(
             Tail(element_children),
             IF AttrSlot \in DOMAIN child.attrs
               THEN hash_insert(slot_values, trim(child.attrs[AttrSlot]), child)
               ELSE slot_values)

\* for child in element.children() { .. }
RECURSIVE insert_slots(_, _)
insert_slots(element_children, slot_values) ==
  IF element_children = <<>> THEN slot_values
  ELSE LET child == Head(element_children)
       IN  insert_slots(
             Tail(element_children),
             IF AttrSlot \in DOMAIN child.attrs
               THEN insert_slot_names(slot_values,
                                      split(child.attrs[AttrSlot], ","), child)
               ELSE slot_values)

\* Path::parent and Path::join, for a path of at least one component and an
\* attribute value without a '/'.
parent(path) == SubSeq(path, 1, Len(path) - 1)
join(path, component) == Append(path, component)

\* The output path that Page::new derives from oeuvre-path.
output_path_of(element, input_path) ==
  IF AttrPath \in DOMAIN element.attrs
    THEN LET attr_value == element.attrs[AttrPath]
         IN  IF attr_value # <<>> /\ Head(attr_value) = "/"
               THEN <<Tail(attr_value)>>
               ELSE join(parent(input_path), attr_value)
    ELSE input_path

\* Result<Page>: <<>> is Err.
PageNew(element, input_path) ==
  IF AttrTemplate \notin DOMAIN element.attrs THEN <<>>
  ELSE <<[path |-> output_path_of(element, input_path),
          template |-> element.attrs[AttrTemplate],
          slot_values |-> insert_slots(children(element), <<>>)]>>

PageLoad(file, path) ==
  LET element == load_xml(file)
  IN  IF element = <<>> THEN <<>> ELSE PageNew(element[1], path)

\* Path::display: the components with '/' between them.
RECURSIVE display(_)
display(path) ==
  IF path = <<>> THEN <<>>
  ELSE IF Len(path) = 1 THEN path[1]
  ELSE path[1] \o <<"/">> \o display(Tail(path))

\* The input directory and the path of the i-th candidate below it.
InputDir == <<"d">>
InputPath(i) == <<InputDir, <<ToString(i)>>>>

\* One iteration of the loop of Page::load_many.
PageLoadMany ==
  /\ stage = "pages"
  /\ next_file <= Len(candidate_files)
  /\ LET loaded == PageLoad(candidate_files[next_file], InputPath(next_file))
     IN  site_pages' =
           IF loaded = <<>> THEN site_pages
           ELSE hash_insert(site_pages, display(loaded[1].path), loaded[1])
  /\ next_file' = next_file + 1
  /\ UNCHANGED <<candidate_files, stage, site_templates, pending, output_files>>
  /\ UNCHANGED <<partition_vars, render_vars, aborted>>

\* Site::render, up to the loop of Page::write_many.
SiteRender ==
  /\ stage = "pages"
  /\ next_file > Len(candidate_files)
  /\ stage' = "writing"
  /\ pending' = DOMAIN site_pages
  /\ UNCHANGED <<candidate_files, next_file, site_templates, site_pages,
                 output_files>>
  /\ UNCHANGED <<partition_vars, render_vars, aborted>>

\* Page::render; Result<String>: <<>> is Err.
render_page(page, templates, snippets) ==
  IF page.template \notin DOMAIN templates THEN <<>>
  ELSE <<render_template(templates[page.template].element, page.slot_values,
                         snippets)>>

\* PathClean::clean: "." is dropped and ".." takes the component before it.
RECURSIVE clean_onto(_, _)
clean_onto(cleaned, rest) ==
  IF rest = <<>> THEN cleaned
  ELSE IF Head(rest) = <<".">> THEN clean_onto(cleaned, Tail(rest))
  ELSE IF Head(rest) = <<".", ".">> /\ cleaned # <<>>
         THEN clean_onto(SubSeq(cleaned, 1, Len(cleaned) - 1), Tail(rest))
  ELSE clean_onto(Append(cleaned, Head(rest)), Tail(rest))

clean(path) == clean_onto(<<>>, path)

OutputDir == <<<<"o", "u", "t">>>>
DoctypeHeader == "<!DOCTYPE html>\r\n"

\* One iteration of the loop of Page::write_many, Page::write included; the
\* HashMap hands out its pages in any order, and the file system takes
\* every write.
PageWriteMany ==
  /\ stage = "writing"
  /\ \E key \in pending :
       LET page == site_pages[key]
           page_rendered == render_page(page, site_templates, site_snippets)
       IN  /\ pending' = pending \ {key}
           /\ output_files' =
                IF page_rendered = <<>> THEN output_files
                ELSE hash_insert(output_files,
                                 display(clean(OutputDir \o page.path)),
                                 [header |-> DoctypeHeader,
                                  root |-> page_rendered[1]])
  /\ UNCHANGED <<candidate_files, stage, next_file, site_templates, site_pages>>
  /\ UNCHANGED <<partition_vars, render_vars, aborted>>

NextPages == PageLoadMany \/ SiteRender \/ PageWriteMany

\* The template t that the pages of the model name: a root with the slot x.
PageTemplate ==
  [name |-> TemplateT,
   element |-> Element(NameDiv, NsHtml, AttrName :> TemplateT, <<SlotLeaf>>)]

(***************************************************************************)
(* One page file whose children declare slots in every way.                *)
(***************************************************************************)
SlotAttrValues == SeqsUpTo({"x", "y", ",", " "}, MaxSlotAttrLen)

\* An element below a child of the page root that declares a slot itself.
SlotG == <<"g">>
Grandchild == Element(NameP, NsHtml, AttrSlot :> SlotG, <<>>)

FirstChildren ==
  { Element(NameP, NsHtml, attrs, nodes) :
      attrs \in {PlainAttrs} \cup {AttrSlot :> v : v \in SlotAttrValues},
      nodes \in {<<>>, <<Grandchild>>} }

SecondChildren ==
  { Element(NameDiv, NsHtml, AttrSlot :> v, <<>>) :
      v \in {<<"x">>, <<"y", ",", " ", "x">>} }

SlotPageRoots ==
  { Element(NameDiv, NsHtml, AttrTemplate :> TemplateT, <<first>> \o rest) :
      first \in FirstChildren,
      rest \in {<<>>} \cup {<<TextLeaf, second>> : second \in SecondChildren} }

InitPageSlots ==
  /\ PartitionIdle
  /\ RenderIdle
  /\ candidate_files \in
       { <<[readable |-> TRUE, parsed |-> <<root>>]>> : root \in SlotPageRoots }
  /\ stage = "pages"
  /\ next_file = 1
  /\ site_templates = (TemplateT :> PageTemplate)
  /\ site_snippets = <<>>
  /\ site_pages = <<>>
  /\ pending = {}
  /\ output_files = <<>>

SpecPageSlots == InitPageSlots /\ [][NextPages]_vars

(***************************************************************************)
(* Claims about the slot map of a page.                                    *)
(***************************************************************************)
\* The root of the page file, its child elements and the page loaded from it.
PageRoot == candidate_files[1].parsed[1]
PageChildren == SelectSeq(PageRoot.nodes, is_element)
PageLoaded == next_file > 1 /\ display(InputPath(1)) \in DOMAIN site_pages
ThePage == site_pages[display(InputPath(1))]

Spaces(n) == [i \in 1..n |-> " "]

\* The name is what is left of the piece without the spaces around it.
Trimmed(piece, name) ==
  /\ name = <<>> \/ (name[1] # " " /\ name[Len(name)] # " ")
  /\ \E before, after \in 0..Len(piece) :
       piece = Spaces(before) \o name \o Spaces(after)

\* The name is one of the comma-separated entries of the value.
IsListed(name, value) ==
  \E from \in 1..(Len(value) + 1), to \in 0..Len(value) :
    /\ from <= to + 1
    /\ from = 1 \/ value[from - 1] = ","
    /\ to = Len(value) \/ value[to + 1] = ","
    /\ \A i \in from..to : value[i] # ","
    /\ Trimmed(SubSeq(value, from, to), name)

\* The names a slot may be declared under in the model.
SlotNames ==
  SeqsUpTo({"x", "y", " "}, MaxSlotAttrLen) \cup {SlotG}

\* The direct children of the page root that list the name in oeuvre-slot.
Declaring(name) ==
  { i \in 1..Len(PageChildren) :
      /\ AttrSlot \in DOMAIN PageChildren[i].attrs
      /\ IsListed(name, PageChildren[i].attrs[AttrSlot]) }

Last(indices) == CHOOSE i \in indices : \A j \in indices : j <= i

\* C14: a slot name declared by one or several direct children of the page
\* root maps to the last of these children in document order.
C14_LastChildWins ==
  PageLoaded =>
    \A name \in SlotNames :
      Declaring(name) # {} =>
        /\ name \in DOMAIN ThePage.slot_values
        /\ ThePage.slot_values[name] = PageChildren[Last(Declaring(name))]

\* Both children of the page root declared the slot x; the map holds the
\* second child, the div.
C14_Witness ==
  /\ PageLoaded
  /\ Declaring(SlotX) = {1, 2}
  /\ ThePage.slot_values[SlotX].name = NameDiv

\* C15: the slot map holds exactly the names listed, comma-separated and
\* trimmed, by the oeuvre-slot values of the direct children of the page
\* root; every name a child lists maps to that child unless a later child
\* lists it too, and an element further down adds no name.
C15_ListedNamesOfDirectChildren ==
  PageLoaded =>
    /\ DOMAIN ThePage.slot_values =
         {name \in SlotNames : Declaring(name) # {}}
    /\ \A i \in 1..Len(PageChildren) : \A name \in SlotNames :
         (i \in Declaring(name) /\ \A j \in Declaring(name) : j <= i) =>
           ThePage.slot_values[name] = PageChildren[i]

\* The first child of the page root declares no slot and holds an element
\* with oeuvre-slot="g", the second has oeuvre-slot="y, x": the map holds x
\* and y, both the second child.
C15_Witness ==
  /\ PageLoaded
  /\ Len(PageChildren) = 2
  /\ AttrSlot \notin DOMAIN PageChildren[1].attrs
  /\ PageChildren[1].nodes = <<Grandchild>>
  /\ PageChildren[2].attrs[AttrSlot] = <<"y", ",", " ", "x">>
  /\ DOMAIN ThePage.slot_values = {<<"x">>, <<"y">>}
  /\ ThePage.slot_values[<<"x">>] = PageChildren[2]
  /\ ThePage.slot_values[<<"y">>] = PageChildren[2]

(***************************************************************************)
(* Site::load: the six calls of expand_glob on one excluded_paths, one     *)
(* category of the configuration after the other.                          *)
(***************************************************************************)
\* How many files the input directory of the site holds.
NumSiteFiles == 2

SiteFiles == 1..NumSiteFiles

\* What the glob library yields for the patterns of one category.
SiteEntries == SeqsUpTo(SiteFiles, NumSiteFiles)

\* The position of each category among the calls of Site::load.
CallExclude == 1
CallOutputDir == 2
CallTemplates == 3
CallSnippets == 4
CallPages == 5
CallAssets == 6

\* The call of expand_glob for config.exclude.
LoadExclude ==
  /\ Len(returned_log) = CallExclude - 1
  /\ \E entries \in SiteEntries : expand_glob(entries)
  /\ UNCHANGED yielded_log

\* The call of expand_glob for the output directory.
LoadOutputDir ==
  /\ Len(returned_log) = CallOutputDir - 1
  /\ \E entries \in SiteEntries : expand_glob(entries)
  /\ UNCHANGED yielded_log

\* The call of expand_glob for config.templates.
LoadTemplatePaths ==
  /\ Len(returned_log) = CallTemplates - 1
  /\ \E entries \in SiteEntries : expand_glob(entries)
  /\ UNCHANGED yielded_log

\* The call of expand_glob for config.snippets.
LoadSnippetPaths ==
  /\ Len(returned_log) = CallSnippets - 1
  /\ \E entries \in SiteEntries : expand_glob(entries)
  /\ UNCHANGED yielded_log

\* The call of expand_glob for config.pages.
LoadPagePaths ==
  /\ Len(returned_log) = CallPages - 1
  /\ \E entries \in SiteEntries : expand_glob(entries)
  /\ UNCHANGED yielded_log

\* The call of expand_glob for config.assets.
LoadAssetPaths ==
  /\ Len(returned_log) = CallAssets - 1
  /\ \E entries \in SiteEntries : expand_glob(entries)
  /\ UNCHANGED yielded_log

NextSite ==
  \/ LoadExclude
  \/ LoadOutputDir
  \/ LoadTemplatePaths
  \/ LoadSnippetPaths
  \/ LoadPagePaths
  \/ LoadAssetPaths

SpecSite == InitPartition /\ [][NextSite]_vars

\* C17: in Site::load a file goes to the first category, in the order
\* excludes, output directory, templates, snippets, pages, assets, whose
\* patterns match it, and to no later category whose patterns match it too.
C17_EarlierCategoryWins ==
  \A call \in Calls : \A file \in SiteFiles :
    file \in Range(returned_log[call]) <=>
      /\ file \in matched_log[call]
      /\ \A earlier \in 1..(call - 1) : file \notin matched_log[earlier]

\* Site::load is through: a file matched by the template patterns and by
\* the page patterns is among the template paths and not among the page
\* paths, and an excluded file that the asset patterns match is no asset.
C17_Witness ==
  /\ Len(returned_log) = CallAssets
  /\ \E file \in matched_log[CallTemplates] \cap matched_log[CallPages] :
       /\ file \in Range(returned_log[CallTemplates])
       /\ file \notin Range(returned_log[CallPages])
  /\ \E file \in matched_log[CallExclude] \cap matched_log[CallAssets] :
       file \notin Range(returned_log[CallAssets])

(***************************************************************************)
(* Calls of expand_glob on one excluded_paths, the first or the second of  *)
(* them with the items that the glob library yielded to it on record.      *)
(***************************************************************************)
\* A first call, of which only the matches are on record.
ExpandGlobBefore ==
  /\ returned_log = <<>>
  /\ ExpandGlob

ExpandGlobYielding ==
  /\ yielded_log = <<>>
  /\ Len(returned_log) <= 1
  /\ \E entries \in GlobEntries :
       /\ expand_glob(entries)
       /\ yielded_log' = Append(yielded_log, entries)

NextOrder == ExpandGlobBefore \/ ExpandGlobYielding

SpecOrder == InitPartition /\ [][NextOrder]_vars

\* The paths of a set, each once, smallest first: one of the orders in which
\* the glob library may yield them.
RECURSIVE Listing(_)
Listing(paths) ==
  IF paths = {} THEN <<>>
  ELSE LET least == CHOOSE p \in paths : \A q \in paths : p <= q
       IN  <<least>> \o Listing(paths \ {least})

\* What a call on the present excluded_paths returns for the given items.
Returns(entries) == remove_excluded(found_paths(entries), excluded_paths, 1)

\* C18: whatever the order and the repetitions in which the matches were
\* yielded, a call returns the list and leaves the excluded_paths that the
\* call on the same excluded_paths returns and leaves when the same set of
\* matches is yielded each once, smallest first.
C18_OrderIndependent ==
  [][ yielded_log' # yielded_log =>
        LET yielded == yielded_log'[Len(yielded_log')]
            listed == Listing(Range(ReadablePaths(yielded)))
        IN  /\ returned_log'[Len(returned_log')] = Returns(listed)
            /\ excluded_paths' = add_excluded(excluded_paths, Returns(listed))
    ]_vars

\* With path 1 claimed, a call was yielded path 3, path 1 and path 3 again:
\* it returned path 3 alone.
C18_Witness ==
  /\ Len(returned_log) = 2
  /\ returned_log[1] = <<1>>
  /\ yielded_log = <<<<3, 1, 3>>>>
  /\ returned_log[2] = <<3>>
  /\ excluded_paths = <<1, 3>>

(***************************************************************************)
(* The page files of a site, loaded by Page::load_many and written by      *)
(* Page::write_many.                                                       *)
(***************************************************************************)
\* A template name that the library does not hold.
TemplateU == <<"u">>

\* The values of oeuvre-path: a path from the root of the output, a file
\* next to the page file, and the name of the first page file.
PathAttrValues == {<<"/", "o">>, <<"o">>, <<ToString(1)>>}

\* The root of the page file at a path: its one child declares the slot x
\* and holds the path as text, so that the documents are told apart.
PageRootAt(path, attrs) ==
  Element(NameDiv, NsHtml, attrs,
          <<Element(NameP, NsHtml, AttrSlot :> SlotX,
                    <<Text(ToString(path))>>)>>)

PageAttrs ==
  {PlainAttrs, AttrTemplate :> TemplateT, AttrTemplate :> TemplateU} \cup
  { (AttrTemplate :> TemplateT) @@ (AttrPath :> v) : v \in PathAttrValues }

PageFilesAt(path) ==
  {UnparsableFile} \cup
  { [readable |-> TRUE, parsed |-> <<PageRootAt(path, attrs)>>] :
      attrs \in PageAttrs }

PageCandidates ==
  UNION { { files \in [1..k -> UNION {PageFilesAt(path) : path \in 1..k}] :
              \A path \in 1..k : files[path] \in PageFilesAt(path) } :
          k \in 0..MaxFiles }

InitPages ==
  /\ PartitionIdle
  /\ RenderIdle
  /\ candidate_files \in PageCandidates
  /\ stage = "pages"
  /\ next_file = 1
  /\ site_templates = (TemplateT :> PageTemplate)
  /\ site_snippets = <<>>
  /\ site_pages = <<>>
  /\ pending = {}
  /\ output_files = <<>>

SpecPages == InitPages /\ [][NextPages]_vars

\* The page file at the path parses and names a template of the library.
LoadsAndRenders(path) ==
  LET file == candidate_files[path]
  IN  /\ file.readable
      /\ file.parsed # <<>>
      /\ AttrTemplate \in DOMAIN file.parsed[1].attrs
      /\ file.parsed[1].attrs[AttrTemplate] \in DOMAIN site_templates

\* The document that the page file at the path is rendered to.
DocumentOf(path) ==
  [header |-> DoctypeHeader,
   root |-> Element(NameDiv, NsHtml, <<>>,
                    <<Element(NameP, NsHtml, <<>>,
                              <<Text(ToString(path))>>)>>)]

WriteManyDone == stage = "writing" /\ pending = {}

\* C19: once Page::write_many is through, every page file that parsed and
\* names a template of the library has its document among the files of the
\* output directory.
C19_EveryPageWritten ==
  WriteManyDone =>
    \A path \in 1..Len(candidate_files) :
      LoadsAndRenders(path) =>
        \E written \in DOMAIN output_files :
          output_files[written] = DocumentOf(path)

(***************************************************************************)
(* The composition engine on a call stack of bounded depth: the functions  *)
(* of render.rs with the number of render_template frames that the stack   *)
(* still takes; a call that finds no frame left exhausts the stack, and    *)
(* the exhaustion ends every call that is under way.                       *)
(***************************************************************************)
\* How many nested calls of render_template the call stack takes.
StackDepth == 6

StackExhausted == [exhausted |-> TRUE]
IsExhausted(result) == "exhausted" \in DOMAIN result

\* Each call's result is bound once (next, child) before it is looked at, so
\* that it is computed once.
RECURSIVE render_template_on_stack(_, _, _, _)
RECURSIVE render_nodes_on_stack(_, _, _, _, _)
RECURSIVE render_include_on_stack(_, _, _, _, _)
RECURSIVE render_slot_on_stack(_, _, _, _, _)
RECURSIVE append_element_on_stack(_, _, _, _, _)
RECURSIVE unwrap_fragment_on_stack(_, _, _, _, _)
RECURSIVE unwrap_nodes_on_stack(_, _, _, _, _)

render_node_on_stack(node, result, slot_values, snippets, frames) ==
  IF ~is_element(node) THEN append_node(result, node)
  ELSE IF node.name = NameInclude
         THEN render_include_on_stack(node, result, slot_values, snippets, frames)
  ELSE IF node.name = NameSlot
         THEN render_slot_on_stack(node, result, slot_values, snippets, frames)
  ELSE IF starts_with(node.name, OeuvrePrefix) THEN result
  ELSE append_element_on_stack(node, result, slot_values, snippets, frames)

render_nodes_on_stack(nodes, result, slot_values, snippets, frames) ==
  IF nodes = <<>> THEN result
  ELSE CHOOSE rendered_nodes \in
         { IF IsExhausted(next) THEN next
           ELSE render_nodes_on_stack(Tail(nodes), next, slot_values, snippets,
                                      frames) :
           next \in {render_node_on_stack(Head(nodes), result, slot_values,
                                          snippets, frames)} } : TRUE

render_template_on_stack(template_element, slot_values, snippets, frames) ==
  IF frames = 0 THEN StackExhausted
  ELSE render_nodes_on_stack(template_element.nodes,
                             initialize_element(template_element),
                             slot_values, snippets, frames - 1)

\* A render_include that, when the snippet does not exist, renders an
\* element holding the marker, and so comes back to the marker.
render_include_on_stack_retries(element, target, slot_values, snippets, frames) ==
  IF AttrSnippet \in DOMAIN element.attrs
    THEN IF element.attrs[AttrSnippet] \in DOMAIN snippets
           THEN unwrap_fragment_on_stack(
                  snippets[element.attrs[AttrSnippet]].element,
                  target, slot_values, snippets, frames)
           ELSE append_element_on_stack(
                  Element(NameP, NsHtml, <<>>, <<element>>),
                  target, slot_values, snippets, frames)
    ELSE target

render_include_on_stack(element, target, slot_values, snippets, frames) ==
  IF AttrSnippet \in DOMAIN element.attrs
    THEN IF element.attrs[AttrSnippet] \in DOMAIN snippets
           THEN unwrap_fragment_on_stack(
                  snippets[element.attrs[AttrSnippet]].element,
                  target, slot_values, snippets, frames)
           ELSE unwrap_fragment_on_stack(element, target, slot_values, snippets,
                                         frames)
    ELSE target

render_slot_on_stack(element, target, slot_values, snippets, frames) ==
  IF AttrName \in DOMAIN element.attrs
    THEN IF element.attrs[AttrName] \in DOMAIN slot_values
           THEN LET slot_value == slot_values[element.attrs[AttrName]]
                IN  IF slot_value.name = NameFragment
                      THEN unwrap_fragment_on_stack(slot_value, target,
                                                    slot_values, snippets, frames)
                      ELSE append_element_on_stack(slot_value, target,
                                                   slot_values, snippets, frames)
           ELSE unwrap_fragment_on_stack(element, target, slot_values, snippets,
                                         frames)
    ELSE target

append_element_on_stack(element, target, slot_values, snippets, frames) ==
  CHOOSE appended \in
    { IF IsExhausted(child) THEN child ELSE append_child(target, child) :
      child \in {render_template_on_stack(element, slot_values, snippets,
                                          frames)} } : TRUE

unwrap_nodes_on_stack(nodes, target, slot_values, snippets, frames) ==
  IF nodes = <<>> THEN target
  ELSE CHOOSE unwrapped \in
         { IF IsExhausted(next) THEN next
           ELSE unwrap_nodes_on_stack(Tail(nodes), next, slot_values, snippets,
                                      frames) :
           next \in { IF is_element(Head(nodes))
                        THEN append_element_on_stack(Head(nodes), target,
                                                     slot_values, snippets,
                                                     frames)
                        ELSE append_node(target, Head(nodes)) } } : TRUE

unwrap_fragment_on_stack(element, target, slot_values, snippets, frames) ==
  unwrap_nodes_on_stack(element.nodes, target, slot_values, snippets, frames)

\* Page::render on the bounded stack, for a page whose template exists.
PageRenderOnStack ==
  /\ rendered = <<>>
  /\ ~aborted
  /\ LET result == render_template_on_stack(template.element, page_slot_values,
                                            site_snippets, StackDepth)
     IN  IF IsExhausted(result)
           THEN /\ aborted' = TRUE
                /\ rendered' = <<>>
           ELSE /\ aborted' = FALSE
                /\ rendered' = <<result>>
  /\ UNCHANGED <<template, page_slot_values, site_snippets>>
  /\ UNCHANGED <<partition_vars, load_vars, page_vars>>

(***************************************************************************)
(* Libraries whose snippets include snippets.                              *)
(***************************************************************************)
SnippetR == <<"r">>

IncludeOf(name) == Element(NameInclude, NsHtml, AttrSnippet :> name, <<>>)
Holding(node) == Element(NameP, NsHtml, PlainAttrs, <<node>>)

\* The children of a snippet root: an include of s or of r or the marker of
\* slot x, directly under the root or inside a p, alone or after a plain
\* element.
IncludingNodes ==
  { IncludeOf(SnippetS), IncludeOf(SnippetR), SlotLeaf,
    Holding(IncludeOf(SnippetS)), Holding(IncludeOf(SnippetR)),
    Holding(SlotLeaf), PlainLeaf }

SnippetContents ==
  { <<node>> : node \in IncludingNodes } \cup
  { <<PlainLeaf, node>> : node \in IncludingNodes }

SnippetOf(name, nodes) ==
  [name |-> name,
   element |-> Element(NameDiv, NsHtml, PlainAttrs @@ (AttrName :> name), nodes)]

IncludingLibraries ==
  { SnippetS :> SnippetOf(SnippetS, nodes) : nodes \in SnippetContents } \cup
  { (SnippetS :> SnippetOf(SnippetS, nodes_s))
      @@ (SnippetR :> SnippetOf(SnippetR, nodes_r)) :
      nodes_s \in SnippetContents, nodes_r \in SnippetContents }

\* Templates whose root holds the include of s, directly or inside a p, or
\* the marker of slot x.
IncludingTemplates ==
  { [name |-> TemplateT,
     element |-> Element(NameDiv, NsHtml, AttrName :> TemplateT, <<node>>)] :
      node \in {IncludeOf(SnippetS), Holding(IncludeOf(SnippetS)), SlotLeaf} }

\* The page gives no slot value, or gives for slot x a p or an
\* oeuvre-fragment that holds a marker of slot x, an include of s or a plain
\* element.
IncludingSlotMaps ==
  {<<>>} \cup
  { SlotX :> Element(NameP, NsHtml, AttrSlot :> SlotX, <<node>>) :
      node \in {SlotLeaf, IncludeOf(SnippetS), PlainLeaf} } \cup
  { SlotX :> Element(NameFragment, NsHtml, AttrSlot :> SlotX, <<node>>) :
      node \in {SlotLeaf, Holding(SlotLeaf), Holding(IncludeOf(SnippetS))} }

InitCycle ==
  /\ PartitionIdle
  /\ LoadIdle
  /\ aborted = FALSE
  /\ template \in IncludingTemplates
  /\ page_slot_values \in IncludingSlotMaps
  /\ site_snippets \in IncludingLibraries
  /\ rendered = <<>>

NextCycle == PageRenderOnStack

SpecCycle == InitCycle /\ [][NextCycle]_vars

\* The include markers anywhere in the content of an element.
RECURSIVE IncludedBy(_)
IncludedBy(element) ==
  UNION { IF ~is_element(element.nodes[i]) THEN {}
          ELSE IF element.nodes[i].name = NameInclude
                    /\ AttrSnippet \in DOMAIN element.nodes[i].attrs
                 THEN {element.nodes[i].attrs[AttrSnippet]}
                        \cup IncludedBy(element.nodes[i])
          ELSE IncludedBy(element.nodes[i]) :
          i \in 1..Len(element.nodes) }

\* The snippets of the library that the content of the named snippet names
\* in an include marker, directly or through a chain of snippets.
RECURSIVE ReachedFrom(_, _)
ReachedFrom(names, steps) ==
  IF steps = 0 THEN names
  ELSE ReachedFrom(
         names \cup UNION { IncludedBy(site_snippets[n].element)
                              \cap DOMAIN site_snippets : n \in names },
         steps - 1)

IncludesItself(name) ==
  name \in ReachedFrom(IncludedBy(site_snippets[name].element)
                         \cap DOMAIN site_snippets,
                       Cardinality(DOMAIN site_snippets))

\* C20: when the content of the snippet s holds an include marker that names
\* s, directly or through a chain of other snippets, the rendering of a
\* template that includes s does not return.
C20_SelfIncludeNeverReturns ==
  IncludesItself(SnippetS) => rendered = <<>>

\* The same renderings, with a rendering that was invoked running to its end.
SpecCycleFair == SpecCycle /\ WF_vars(NextCycle)

\* The slot markers that carry a name anywhere in the content of an element.
RECURSIVE SlottedBy(_)
SlottedBy(element) ==
  UNION { IF ~is_element(element.nodes[i]) THEN {}
          ELSE IF element.nodes[i].name = NameSlot
                    /\ AttrName \in DOMAIN element.nodes[i].attrs
                 THEN {element.nodes[i].attrs[AttrName]}
                        \cup SlottedBy(element.nodes[i])
          ELSE SlottedBy(element.nodes[i]) :
          i \in 1..Len(element.nodes) }

\* The snippets of the library and the slot values of the page, and what the
\* content of each refers to: the snippets its include markers name and the
\* slot values its slot markers resolve to.
Sources ==
  {<<"snippet", n>> : n \in DOMAIN site_snippets} \cup
  {<<"slot", n>> : n \in DOMAIN page_slot_values}

ContentOf(source) ==
  IF source[1] = "snippet" THEN site_snippets[source[2]].element
  ELSE page_slot_values[source[2]]

RefersTo(source) ==
  {<<"snippet", n>> : n \in IncludedBy(ContentOf(source))} \cup
  {<<"slot", n>> : n \in SlottedBy(ContentOf(source))}

RECURSIVE Reaches(_, _)
Reaches(sources, steps) ==
  IF steps = 0 THEN sources
  ELSE Reaches(sources \cup
                 UNION {RefersTo(source) \cap Sources : source \in sources},
               steps - 1)

\* No snippet reaches an include of itself through snippets, and no slot
\* value reaches a slot marker that resolves to itself.
Acyclic ==
  /\ \A name \in DOMAIN site_snippets : ~IncludesItself(name)
  /\ \A name \in DOMAIN page_slot_values :
       <<"slot", name>> \notin
         Reaches(RefersTo(<<"slot", name>>) \cap Sources, Cardinality(Sources))

\* C21: on a library and a slot map in which no snippet reaches an include
\* of itself and no slot value reaches a slot marker that resolves back to
\* it, a rendering that was invoked returns a tree; the stack is not
\* exhausted.
C21_AcyclicRenderingReturns ==
  /\ [](Acyclic => ~aborted)
  /\ Acyclic ~> rendered # <<>>

\* A rendering returned that went from the template through the slot value
\* of x to the snippet s and from s to the snippet r.
C21_Witness ==
  /\ Acyclic
  /\ rendered # <<>>
  /\ template.element.nodes = <<SlotLeaf>>
  /\ SlotX \in DOMAIN page_slot_values
  /\ page_slot_values[SlotX].nodes = <<IncludeOf(SnippetS)>>
  /\ SnippetR \in DOMAIN site_snippets
  /\ site_snippets[SnippetS].element.nodes = <<Holding(IncludeOf(SnippetR))>>
  /\ site_snippets[SnippetR].element.nodes = <<PlainLeaf, PlainLeaf>>


(***************************************************************************)
(* Markers in the output.                                                  *)
(***************************************************************************)
\* An element below e with a reserved name.
RECURSIVE HasReservedName(_)
HasReservedName(e) ==
  \E i \in 1..Len(e.nodes) :
    /\ is_element(e.nodes[i])
    /\ \/ starts_with(e.nodes[i].name, OeuvrePrefix)
       \/ HasReservedName(e.nodes[i])

\* C22: no element below the root of the tree that render_template returns
\* has a name beginning with oeuvre-: every marker reached during rendering
\* is resolved or dropped, never copied into the output.
C22_NoMarkerInOutput == Done => ~HasReservedName(Out)

====
